---- MODULE Spec2Model ----
(***************************************************************************)
(* Model of src-tauri/src/codex_mcp.rs: reading and writing the MCP server *)
(* table of ~/.codex/config.toml.                                          *)
(*                                                                         *)
(* A TOML or JSON value is a one-field record whose field name is its      *)
(* kind: [str |-> s], [num |-> n] (any scalar that is not a string),       *)
(* [arr |-> sequence of values], [tbl |-> function from keys to values].   *)
(* as_str / as_array / as_table / as_object succeed exactly on the         *)
(* matching kind.  An Option is [none |-> TRUE] or [some |-> v]; a Result  *)
(* is [ok |-> v] or [err |-> message].                                     *)
(***************************************************************************)
EXTENDS Integers, Sequences, FiniteSets, TLC

VARIABLES file, call, pc, local, staged, overlap

vars == <<file, call, pc, local, staged, overlap>>

----------------------------------------------------------------------------
(* Values *)

S(s) == [str |-> s]
N == [num |-> 1]
A(q) == [arr |-> q]
T(f) == [tbl |-> f]

None == [none |-> TRUE]
Some(v) == [some |-> v]

Empty == <<>>

\* the value () of a call that returns nothing
Unit == <<>>

as_str(v) == IF "str" \in DOMAIN v THEN Some(v.str) ELSE None
as_array(v) == IF "arr" \in DOMAIN v THEN Some(v.arr) ELSE None
as_table(v) == IF "tbl" \in DOMAIN v THEN Some(v.tbl) ELSE None

\* table.get(key): the value under key, if any
get(t, k) == IF k \in DOMAIN t THEN Some(t[k]) ELSE None

\* spec.get(key) on a serde_json::Value: None unless spec is an object
json_get(spec, k) == IF "tbl" \in DOMAIN spec THEN get(spec.tbl, k) ELSE None

\* opt.and_then(f)
get_str(t, k) == IF get(t, k) = None THEN None ELSE as_str(t[k])
get_array(t, k) == IF get(t, k) = None THEN None ELSE as_array(t[k])
get_table(t, k) == IF get(t, k) = None THEN None ELSE as_table(t[k])

json_get_str(spec, k) == IF json_get(spec, k) = None THEN None ELSE as_str(spec.tbl[k])
json_get_array(spec, k) == IF json_get(spec, k) = None THEN None ELSE as_array(spec.tbl[k])
json_get_object(spec, k) == IF json_get(spec, k) = None THEN None ELSE as_table(spec.tbl[k])

unwrap_or(o, d) == IF o = None THEN d ELSE o.some

\* s.trim().is_empty(): every character of s is white space
Whitespace == {" ", "\t", "\n", "\r"}
trim_is_empty(s) == \A i \in 1..Len(s) : SubSeq(s, i, i) \in Whitespace

\* iter().filter_map(|x| x.as_str()): the string elements, in order
filter_strs(q) == SelectSeq(q, LAMBDA x : "str" \in DOMAIN x)

\* the entries of a table whose value is a string
str_entries(t) == [k \in {x \in DOMAIN t : "str" \in DOMAIN t[x]} |-> t[k]]

remove(t, k) == [x \in DOMAIN t \ {k} |-> t[x]]
insert(t, k, v) == (k :> v) @@ t

\* a table with the one entry k -> v when c holds, else no entry
field(c, k, v) == IF c THEN (k :> v) ELSE Empty

----------------------------------------------------------------------------
(* toml_server_to_json: one raw entry of the file to a descriptor *)

toml_type(entry_tbl) == unwrap_or(get_str(entry_tbl, "type"), "stdio")

toml_command(entry_tbl) ==
    LET cmd == get_str(entry_tbl, "command")
    IN  field(cmd # None, "command", S(unwrap_or(cmd, "")))

\* variant: the elements of args are taken as they are
toml_args_unfiltered(entry_tbl) ==
    LET args == get_array(entry_tbl, "args")
    IN  field(args # None /\ unwrap_or(args, <<>>) # <<>>, "args", A(unwrap_or(args, <<>>)))

toml_args(entry_tbl) ==
    LET args == get_array(entry_tbl, "args")
        arr == filter_strs(unwrap_or(args, <<>>))
    IN  field(args # None /\ arr # <<>>, "args", A(arr))

toml_env(entry_tbl) ==
    LET env_tbl == get_table(entry_tbl, "env")
        env_json == str_entries(unwrap_or(env_tbl, Empty))
    IN  field(env_tbl # None /\ DOMAIN env_json # {}, "env", T(env_json))

toml_cwd(entry_tbl) ==
    LET cwd == get_str(entry_tbl, "cwd")
    IN  field(cwd # None /\ ~trim_is_empty(unwrap_or(cwd, "")), "cwd", S(unwrap_or(cwd, "")))

toml_url(entry_tbl) ==
    LET url == get_str(entry_tbl, "url")
    IN  field(url # None, "url", S(unwrap_or(url, "")))

\* variant: the field headers is looked up first
toml_headers_tbl_swapped(entry_tbl) ==
    IF get_table(entry_tbl, "headers") # None
    THEN get_table(entry_tbl, "headers")
    ELSE get_table(entry_tbl, "http_headers")

\* get("http_headers").and_then(as_table).or_else(|| get("headers").and_then(as_table))
toml_headers_tbl(entry_tbl) ==
    IF get_table(entry_tbl, "http_headers") # None
    THEN get_table(entry_tbl, "http_headers")
    ELSE get_table(entry_tbl, "headers")

toml_headers(entry_tbl) ==
    LET headers_tbl == toml_headers_tbl(entry_tbl)
        headers_json == str_entries(unwrap_or(headers_tbl, Empty))
    IN  field(headers_tbl # None /\ DOMAIN headers_json # {}, "headers", T(headers_json))

\* variant: an entry of another type is returned with its type alone
toml_server_to_json_lenient(id, entry_val) ==
    IF as_table(entry_val) = None THEN None
    ELSE LET entry_tbl == entry_val.tbl
             typ == toml_type(entry_tbl)
             spec == "type" :> S(typ)
         IN  CASE typ = "stdio" ->
                    Some(T(toml_cwd(entry_tbl) @@ toml_env(entry_tbl) @@ toml_args(entry_tbl)
                           @@ toml_command(entry_tbl) @@ spec))
               [] typ \in {"http", "sse"} ->
                    Some(T(toml_headers(entry_tbl) @@ toml_url(entry_tbl) @@ spec))
               [] OTHER -> Some(T(spec))

toml_server_to_json(id, entry_val) ==
    IF as_table(entry_val) = None THEN None
    ELSE LET entry_tbl == entry_val.tbl
             typ == toml_type(entry_tbl)
             spec == "type" :> S(typ)
         IN  CASE typ = "stdio" ->
                    Some(T(toml_cwd(entry_tbl) @@ toml_env(entry_tbl) @@ toml_args(entry_tbl)
                           @@ toml_command(entry_tbl) @@ spec))
               [] typ \in {"http", "sse"} ->
                    Some(T(toml_headers(entry_tbl) @@ toml_url(entry_tbl) @@ spec))
               [] OTHER -> None

----------------------------------------------------------------------------
(* read_mcp_servers_map *)

FileAbsent == [absent |-> TRUE]
FileMalformed == [malformed |-> TRUE]
FileDoc(root) == [root |-> root]

Ok(v) == [ok |-> v]
Err(e) == [err |-> e]
is_ok(r) == "ok" \in DOMAIN r

\* the descriptors of the entries of one server table that convert
scan(servers_tbl, ids) ==
    [id \in {x \in ids : toml_server_to_json(x, servers_tbl[x]) # None}
        |-> toml_server_to_json(id, servers_tbl[id]).some]

\* variant: the primary location is not scanned
primary_scan_skipped(root) == Empty

primary_scan(root) ==
    LET mcp_servers == get_table(root, "mcp_servers")
    IN  IF mcp_servers = None THEN Empty
        ELSE scan(mcp_servers.some, DOMAIN mcp_servers.some)

\* variant: a legacy entry replaces the primary entry of its identifier
legacy_scan_overwrite(root, result) ==
    LET mcp_tbl == get_table(root, "mcp")
        servers_tbl == IF mcp_tbl = None THEN None ELSE get_table(mcp_tbl.some, "servers")
    IN  IF servers_tbl = None THEN result
        ELSE scan(servers_tbl.some, DOMAIN servers_tbl.some) @@ result

legacy_scan(root, result) ==
    LET mcp_tbl == get_table(root, "mcp")
        servers_tbl == IF mcp_tbl = None THEN None ELSE get_table(mcp_tbl.some, "servers")
    IN  IF servers_tbl = None THEN result
        ELSE result @@ scan(servers_tbl.some, DOMAIN servers_tbl.some \ DOMAIN result)

read_mcp_servers_map(f) ==
    CASE f = FileAbsent -> Ok(Empty)
      [] f = FileMalformed -> Err("parse")
      [] OTHER -> Ok(legacy_scan(f.root, primary_scan(f.root)))

----------------------------------------------------------------------------
(* json_server_to_toml_table: one descriptor to a raw entry of the file *)

json_type(spec) == unwrap_or(json_get_str(spec, "type"), "stdio")

json_command(spec) == "command" :> S(unwrap_or(json_get_str(spec, "command"), ""))

\* variant: args is not written
json_args_dropped(spec) == Empty

json_args(spec) ==
    LET args == json_get_array(spec, "args")
        arr_v == filter_strs(unwrap_or(args, <<>>))
    IN  field(args # None /\ arr_v # <<>>, "args", A(arr_v))

json_cwd(spec) ==
    LET cwd == json_get_str(spec, "cwd")
    IN  field(cwd # None /\ ~trim_is_empty(unwrap_or(cwd, "")), "cwd", S(unwrap_or(cwd, "")))

json_env(spec) ==
    LET env == json_get_object(spec, "env")
        env_tbl == str_entries(unwrap_or(env, Empty))
    IN  field(env # None /\ DOMAIN env_tbl # {}, "env", T(env_tbl))

json_url(spec) == "url" :> S(unwrap_or(json_get_str(spec, "url"), ""))

json_headers(spec) ==
    LET headers == json_get_object(spec, "headers")
        h_tbl == str_entries(unwrap_or(headers, Empty))
    IN  field(headers # None /\ DOMAIN h_tbl # {}, "http_headers", T(h_tbl))

json_server_to_toml_table(spec) ==
    LET typ == json_type(spec)
        t == "type" :> S(typ)
    IN  CASE typ = "stdio" ->
               Ok(json_env(spec) @@ json_cwd(spec) @@ json_args(spec) @@ json_command(spec) @@ t)
          [] typ \in {"http", "sse"} ->
               Ok(json_headers(spec) @@ json_url(spec) @@ t)
          [] OTHER -> Err("unsupported type")

----------------------------------------------------------------------------
(* set_mcp_servers_map *)

\* the document the write starts from: the parsed file, or a new document
load_doc(f) ==
    CASE f = FileAbsent -> Ok(Empty)
      [] f = FileMalformed -> Err("parse")
      [] OTHER -> Ok(f.root)

\* variant: the whole legacy container is removed
clean_legacy_container(doc) ==
    LET tbl == get_table(doc, "mcp")
    IN  IF tbl # None /\ "servers" \in DOMAIN tbl.some
        THEN remove(doc, "mcp")
        ELSE doc

\* as_table_like_mut succeeds on a table (standard or inline)
clean_legacy(doc) ==
    LET tbl == get_table(doc, "mcp")
    IN  IF tbl # None /\ "servers" \in DOMAIN tbl.some
        THEN insert(doc, "mcp", T(remove(tbl.some, "servers")))
        ELSE doc

\* the fresh table of the descriptors that convert
build_servers_tbl(servers) ==
    [id \in {x \in DOMAIN servers : is_ok(json_server_to_toml_table(servers[x]))}
        |-> T(json_server_to_toml_table(servers[id]).ok)]

\* variant: the table is set also when the map is empty
put_primary_always(doc, servers) == insert(doc, "mcp_servers", T(build_servers_tbl(servers)))

\* variant: the entries of the previous table are kept beside the new ones
put_primary_merged(doc, servers) ==
    IF DOMAIN servers = {}
    THEN remove(doc, "mcp_servers")
    ELSE insert(doc, "mcp_servers",
                T(build_servers_tbl(servers) @@ unwrap_or(get_table(doc, "mcp_servers"), Empty)))

put_primary(doc, servers) ==
    IF DOMAIN servers = {}
    THEN remove(doc, "mcp_servers")
    ELSE insert(doc, "mcp_servers", T(build_servers_tbl(servers)))

\* the document set_mcp_servers_map builds from the loaded one
updated_doc(doc, servers) == put_primary(clean_legacy(doc), servers)

\* the file left by set_mcp_servers_map(servers) and the value it returns
set_mcp_servers_map(f, servers) ==
    IF is_ok(load_doc(f))
    THEN [file |-> FileDoc(updated_doc(load_doc(f).ok, servers)), ret |-> Ok(Unit)]
    ELSE [file |-> f, ret |-> load_doc(f)]

----------------------------------------------------------------------------
(* Bounded inputs: file contents and descriptor maps *)

\* the longest args array of an input
MaxArgs == 2

ArgElems == {S("x"), S("y"), N}
ArgSeqs == UNION {[1..n -> ArgElems] : n \in 0..MaxArgs}

\* tables over a subset of the keys of t
SubTables(t) == {[k \in D |-> t[k]] : D \in SUBSET DOMAIN t}

TomlStdio == T(("type" :> S("stdio")) @@ ("command" :> S("node")))
TomlUnknown == T(("type" :> S("ws")) @@ ("command" :> S("node")) @@ ("url" :> S("u")))
TomlHttp == T(("type" :> S("http")) @@ ("url" :> S("u")) @@ ("headers" :> T("B" :> S("2"))))

\* raw entries: each field absent, mistyped, or a string / array / table
TomlStdioEntries ==
    {T(t) : t \in SubTables(("type" :> S("stdio")) @@ ("command" :> S("node")))}
    \cup {T(("type" :> ty) @@ ("command" :> c)) : ty \in {N, S("STDIO"), S("")}, c \in {S("node"), N}}
    \cup {T(("command" :> S("node")) @@ ("args" :> v)) : v \in {N} \cup {A(q) : q \in ArgSeqs}}
    \cup {T(("type" :> S("stdio")) @@ ("command" :> S("other")) @@ ("env" :> v)) :
             v \in {N, T(Empty), T("K" :> S("v")), T(("K" :> S("v")) @@ ("X" :> N)), T("X" :> N)}}
    \cup {T(("type" :> S("stdio")) @@ ("cwd" :> v)) : v \in {N, S(""), S(" "), S("/w"), S(" /w ")}}

HeaderTables == {N, T(Empty), T("A" :> S("1")), T("A" :> N), T(("A" :> S("1")) @@ ("C" :> N))}

TomlRemoteEntries ==
    {T(("type" :> S(ty)) @@ t) : ty \in {"http", "sse"}, t \in SubTables(("url" :> S("u")) @@ ("command" :> S("node")))}
    \cup {T(("type" :> S("http")) @@ ("url" :> N))}
    \cup {T(("type" :> S("http")) @@ ("url" :> S("u")) @@ ("http_headers" :> h)) : h \in HeaderTables}
    \cup {T(("type" :> S("sse")) @@ ("http_headers" :> h) @@ ("headers" :> g)) :
             h \in HeaderTables, g \in {N, T("B" :> S("2"))}}

TomlEntries == TomlStdioEntries \cup TomlRemoteEntries \cup {TomlUnknown, TomlHttp, N, S("node")}

TomlReference == {TomlStdio, TomlUnknown, TomlHttp}

\* server tables: any entry under "a", a reference entry or none under "b"
TablesOver(A0, B0) ==
    {Empty} \cup {"a" :> x : x \in A0} \cup {"b" :> y : y \in B0}
    \cup {("a" :> x) @@ ("b" :> y) : x \in A0, y \in B0}

RichTables == TablesOver(TomlEntries, TomlReference)
TomlBothHeaders ==
    T(("type" :> S("http")) @@ ("url" :> S("u")) @@ ("http_headers" :> T("A" :> S("1")))
      @@ ("headers" :> T("B" :> S("2"))))
TomlMistypedHeaders ==
    T(("type" :> S("sse")) @@ ("url" :> S("u")) @@ ("http_headers" :> N) @@ ("headers" :> T("B" :> S("2"))))

PrimaryTables ==
    TablesOver({TomlStdio, TomlUnknown, TomlBothHeaders, TomlMistypedHeaders}, {TomlStdio})
    \cup {"c" :> TomlStdio, ("a" :> TomlHttp) @@ ("c" :> TomlStdio)}
LegacyTables == TablesOver({TomlStdio}, {TomlHttp})

\* documents: the primary table, the legacy container with its servers table, other keys
Doc(primary, legacy, rest) == primary @@ legacy @@ rest

PrimaryOf(tables) == {Empty, "mcp_servers" :> N} \cup {"mcp_servers" :> T(t) : t \in tables}
LegacyOf(tables) ==
    {Empty, "mcp" :> N}
    \cup {"mcp" :> T(k @@ sv) : k \in {Empty, "timeout" :> N},
                               sv \in {Empty, "servers" :> N} \cup {"servers" :> T(t) : t \in tables}}
RestOf == {Empty, "model" :> S("m")}

Docs ==
    {FileAbsent, FileMalformed}
    \cup {FileDoc(Doc(p, l, r)) : p \in PrimaryOf(PrimaryTables), l \in LegacyOf(LegacyTables), r \in RestOf}

TomlBare == T("type" :> S("sse"))

RichDocs ==
    {FileDoc(Doc(p, l, Empty)) : p \in PrimaryOf(RichTables),
                                 l \in LegacyOf({Empty, "a" :> TomlStdio, "b" :> TomlHttp, "b" :> TomlBare})}
    \cup {FileDoc(Doc(p, l, Empty)) :
             p \in PrimaryOf({Empty, "a" :> TomlUnknown, "a" :> TomlHttp, ("a" :> TomlUnknown) @@ ("b" :> TomlStdio)}),
             l \in LegacyOf(RichTables)}

\* descriptors handed to the writer
JsonStdio == T(("type" :> S("stdio")) @@ ("command" :> S("node")))
JsonUnknown == T(("type" :> S("ws")) @@ ("url" :> S("u")))

JsonDescriptors ==
    {T(("type" :> S("stdio")) @@ ("command" :> S("node")) @@ ("args" :> A(q))) : q \in ArgSeqs}
    \cup {T(("type" :> S("stdio")) @@ ("command" :> S("")) @@ ("env" :> T(Empty)) @@ ("cwd" :> S(" "))),
          T(("type" :> S("stdio")) @@ ("command" :> S("node")) @@ ("env" :> T("K" :> S("v"))) @@ ("cwd" :> S("/w"))),
          T(("type" :> S("stdio")) @@ ("command" :> S("node")) @@ ("env" :> T(("K" :> S("v")) @@ ("X" :> N)))),
          T(("type" :> S("http")) @@ ("url" :> S("u")) @@ ("headers" :> T(("A" :> S("1")) @@ ("B" :> S("2"))))),
          T(("type" :> S("sse")) @@ ("url" :> S("u")) @@ ("headers" :> T(Empty))),
          T(("type" :> S("http")) @@ ("headers" :> T(("A" :> S("1")) @@ ("C" :> N)))),
          T(("type" :> S("sse")) @@ ("url" :> S(""))),
          T(Empty),
          T(("type" :> N) @@ ("command" :> S("node"))),
          T(("type" :> S("stdio")) @@ ("command" :> N) @@ ("args" :> N)),
          T(("type" :> S("http")) @@ ("url" :> S("u")) @@ ("command" :> S("node"))),
          S("node"),
          JsonUnknown}

Maps == TablesOver(JsonDescriptors, {JsonStdio, JsonUnknown})

----------------------------------------------------------------------------
(* The calls.  call records the last completed call: its operation, the    *)
(* file before it, its argument (a read keeps the argument of the set it   *)
(* follows), and what it returned.                                         *)

NoCall == [op |-> "none", pre |-> FileAbsent, servers |-> Empty, after_set |-> FALSE,
           unmodified |-> FALSE, ret |-> Ok(Unit)]

Idle == /\ pc = [c \in {} |-> "start"]
        /\ local = Empty
        /\ staged = Empty
        /\ overlap = FALSE

Init == /\ file \in Docs
        /\ call = NoCall
        /\ Idle

InitMigrate == /\ file \in RichDocs
               /\ call = NoCall
               /\ Idle

\* read_mcp_servers_map(): the file is left as it is
ReadCall ==
    /\ call' = [op |-> "read", pre |-> file,
                servers |-> IF call.op = "set" /\ is_ok(call.ret) THEN call.servers ELSE Empty,
                after_set |-> call.op = "set" /\ is_ok(call.ret),
                unmodified |-> call.op = "set" /\ is_ok(call.ret) /\ call.unmodified,
                ret |-> read_mcp_servers_map(file)]
    /\ UNCHANGED <<file, pc, local, staged, overlap>>

\* set_mcp_servers_map(servers)
Set(servers) ==
    /\ file' = set_mcp_servers_map(file, servers).file
    /\ call' = [op |-> "set", pre |-> file, servers |-> servers, after_set |-> FALSE,
                unmodified |-> call.op = "read" /\ call.ret = Ok(servers),
                ret |-> set_mcp_servers_map(file, servers).ret]
    /\ UNCHANGED <<pc, local, staged, overlap>>

\* a caller that has read nothing passes any descriptor map
SetCall ==
    /\ call.op = "none"
    /\ \E servers \in Maps : Set(servers)

\* the caller passes the map it has just read, as it is
ResaveCall ==
    /\ call.op = "read"
    /\ is_ok(call.ret)
    /\ Set(call.ret.ok)

\* the command handler returns: the next caller starts with nothing
Return ==
    /\ call.op # "none"
    /\ call' = NoCall
    /\ UNCHANGED <<file, pc, local, staged, overlap>>

Next == ReadCall \/ SetCall \/ ResaveCall \/ Return

NextMigrate == ReadCall \/ ResaveCall

Spec == Init /\ [][Next]_vars

SpecMigrate == InitMigrate /\ [][NextMigrate]_vars

----------------------------------------------------------------------------
(* Two callers, each running read_mcp_servers_map, adding its own server   *)
(* to the map and calling set_mcp_servers_map.  Nothing holds the file     *)
(* between the read of a call and its write: a step is one file access.    *)

Callers == {1, 2}

OwnId(c) == IF c = 1 THEN "p" ELSE "q"
OwnServer(c) ==
    IF c = 1 THEN T(("type" :> S("stdio")) @@ ("command" :> S("one")))
    ELSE T(("type" :> S("http")) @@ ("url" :> S("two")))

RaceDocs ==
    {FileAbsent, FileMalformed}
    \cup {FileDoc(Doc(p, l, r)) : p \in PrimaryOf({Empty, "a" :> TomlStdio, "p" :> TomlHttp}),
                                  l \in LegacyOf({"b" :> TomlHttp}), r \in RestOf}

InitRace == /\ file \in RaceDocs
            /\ call = NoCall
            /\ pc = [c \in Callers |-> "read"]
            /\ local = [c \in Callers |-> Empty]
            /\ staged = [c \in Callers |-> Empty]
            /\ overlap = FALSE

\* the other caller is between its first file access and its last
Busy(c) == \E d \in Callers \ {c} : pc[d] \in {"load", "store"}

\* read_mcp_servers_map, then the caller adds its server to the map
RaceRead(c) ==
    /\ pc[c] = "read"
    /\ IF is_ok(read_mcp_servers_map(file))
       THEN /\ local' = [local EXCEPT ![c] = insert(read_mcp_servers_map(file).ok, OwnId(c), OwnServer(c))]
            /\ pc' = [pc EXCEPT ![c] = "load"]
       ELSE /\ local' = local
            /\ pc' = [pc EXCEPT ![c] = "failed"]
    /\ overlap' = (overlap \/ Busy(c))
    /\ UNCHANGED <<file, call, staged>>

\* set_mcp_servers_map up to its file read: the document to write is built
RaceLoad(c) ==
    /\ pc[c] = "load"
    /\ IF is_ok(load_doc(file))
       THEN /\ staged' = [staged EXCEPT ![c] = updated_doc(load_doc(file).ok, local[c])]
            /\ pc' = [pc EXCEPT ![c] = "store"]
       ELSE /\ staged' = staged
            /\ pc' = [pc EXCEPT ![c] = "failed"]
    /\ overlap' = (overlap \/ Busy(c))
    /\ UNCHANGED <<file, call, local>>

\* set_mcp_servers_map from its file write on: it returns success
RaceStore(c) ==
    /\ pc[c] = "store"
    /\ file' = FileDoc(staged[c])
    /\ pc' = [pc EXCEPT ![c] = "done"]
    /\ overlap' = (overlap \/ Busy(c))
    /\ UNCHANGED <<call, local, staged>>

NextRace == \E c \in Callers : RaceRead(c) \/ RaceLoad(c) \/ RaceStore(c)

SpecRace == InitRace /\ [][NextRace]_vars

----------------------------------------------------------------------------
(* Vocabulary of the properties *)

Known == {"stdio", "http", "sse"}

IsDoc(f) == "root" \in DOMAIN f

\* the document a call starts from
RootOf(f) == IF IsDoc(f) THEN f.root ELSE Empty

IsTable(t, k) == k \in DOMAIN t /\ "tbl" \in DOMAIN t[k]

\* the server table of the primary location, if it is one
PrimaryTable(root) == IF IsTable(root, "mcp_servers") THEN root["mcp_servers"].tbl ELSE Empty

\* the server table of the legacy location, if it is one
LegacyTable(root) ==
    IF IsTable(root, "mcp") /\ IsTable(root["mcp"].tbl, "servers")
    THEN root["mcp"].tbl["servers"].tbl
    ELSE Empty

\* the type a descriptor or entry is handled as: its string type, stdio without one
TypeOf(v) ==
    IF "tbl" \in DOMAIN v /\ "type" \in DOMAIN v.tbl /\ "str" \in DOMAIN v.tbl["type"]
    THEN v.tbl["type"].str
    ELSE "stdio"

SetDone == call.op = "set" /\ is_ok(call.ret)
ReadDone == call.op = "read" /\ is_ok(call.ret)

\* t and u agree on every key outside skip
SameOutside(t, u, skip) ==
    /\ DOMAIN t \ skip = DOMAIN u \ skip
    /\ \A k \in DOMAIN t \ skip : t[k] = u[k]

----------------------------------------------------------------------------
(* C3: a successful set_mcp_servers_map leaves every top-level key other   *)
(* than mcp_servers and mcp as it was, and inside a legacy container mcp   *)
(* every key other than servers; read_mcp_servers_map leaves the file as   *)
(* it was.                                                                 *)
C3_Preservation ==
    /\ SetDone =>
         /\ IsDoc(file)
         /\ SameOutside(RootOf(call.pre), file.root, {"mcp_servers", "mcp"})
         /\ "mcp" \in DOMAIN RootOf(call.pre) <=> "mcp" \in DOMAIN file.root
         /\ IsTable(RootOf(call.pre), "mcp") =>
               /\ IsTable(file.root, "mcp")
               /\ SameOutside(RootOf(call.pre)["mcp"].tbl, file.root["mcp"].tbl, {"servers"})
    /\ call.op = "read" => file = call.pre

C3_Witness ==
    /\ SetDone
    /\ "model" \in DOMAIN RootOf(call.pre)
    /\ IsTable(RootOf(call.pre), "mcp")
    /\ DOMAIN RootOf(call.pre)["mcp"].tbl = {"timeout", "servers"}
    /\ DOMAIN PrimaryTable(RootOf(call.pre)) # {}
    /\ DOMAIN call.servers # {}
    /\ file # call.pre

(* C5: a successful set_mcp_servers_map with the empty map leaves a        *)
(* document with no mcp_servers key and no servers table in the legacy     *)
(* container, and the read that follows returns the empty map.             *)
C5_EmptyWrite ==
    /\ (SetDone /\ DOMAIN call.servers = {}) =>
         /\ "mcp_servers" \notin DOMAIN file.root
         /\ IsTable(file.root, "mcp") => "servers" \notin DOMAIN file.root["mcp"].tbl
    /\ (ReadDone /\ call.after_set /\ DOMAIN call.servers = {}) => call.ret = Ok(Empty)

C5_Witness ==
    /\ ReadDone
    /\ call.after_set
    /\ DOMAIN call.servers = {}
    /\ "model" \in DOMAIN file.root
    /\ "mcp" \in DOMAIN file.root
    /\ call.ret = Ok(Empty)

(* C6: with a non-empty map and a parseable or absent file,                *)
(* set_mcp_servers_map returns success and the primary location holds      *)
(* exactly the identifiers of the map whose descriptor type is stdio, http *)
(* or sse (a descriptor without a string type counts as stdio); no entry   *)
(* of the previous primary location outside the map survives.              *)
C6_WholesaleReplace ==
    (call.op = "set" /\ call.pre # FileMalformed /\ DOMAIN call.servers # {}) =>
        /\ is_ok(call.ret)
        /\ DOMAIN PrimaryTable(file.root) = {id \in DOMAIN call.servers : TypeOf(call.servers[id]) \in Known}

C6_Witness ==
    /\ SetDone
    /\ \E id \in DOMAIN call.servers : TypeOf(call.servers[id]) \notin Known
    /\ \E id \in DOMAIN call.servers : TypeOf(call.servers[id]) \in Known
    /\ \E id \in DOMAIN PrimaryTable(RootOf(call.pre)) : id \notin DOMAIN call.servers
    /\ DOMAIN PrimaryTable(file.root) # {}

(* C8: in the document left by a successful set_mcp_servers_map, the       *)
(* mcp_servers key is absent or a table with at least one server entry.    *)
C8_NoEmptyPrimary ==
    SetDone => \/ "mcp_servers" \notin DOMAIN file.root
               \/ DOMAIN PrimaryTable(file.root) # {}

----------------------------------------------------------------------------
(* Valid descriptors: a string type among the three, the fields of that    *)
(* type only, command or url a string, args / env / headers of strings.    *)

AllStrs(q) == \A i \in DOMAIN q : "str" \in DOMAIN q[i]

HasStr(t, k) == k \in DOMAIN t /\ "str" \in DOMAIN t[k]
StrsArrayOrNone(t, k) == k \in DOMAIN t => ("arr" \in DOMAIN t[k] /\ AllStrs(t[k].arr))
StrsTableOrNone(t, k) == k \in DOMAIN t => ("tbl" \in DOMAIN t[k] /\ AllStrs(t[k].tbl))

ValidDescriptor(d) ==
    /\ "tbl" \in DOMAIN d
    /\ HasStr(d.tbl, "type")
    /\ \/ /\ d.tbl["type"].str = "stdio"
          /\ DOMAIN d.tbl \subseteq {"type", "command", "args", "env", "cwd"}
          /\ HasStr(d.tbl, "command")
          /\ StrsArrayOrNone(d.tbl, "args")
          /\ StrsTableOrNone(d.tbl, "env")
          /\ "cwd" \in DOMAIN d.tbl => "str" \in DOMAIN d.tbl["cwd"]
       \/ /\ d.tbl["type"].str \in {"http", "sse"}
          /\ DOMAIN d.tbl \subseteq {"type", "url", "headers"}
          /\ HasStr(d.tbl, "url")
          /\ StrsTableOrNone(d.tbl, "headers")

\* a field that reads back as absent: an empty array or table, a blank cwd
OmittedField(t, k) ==
    \/ k \in {"args"} /\ t[k] = A(<<>>)
    \/ k \in {"env", "headers"} /\ t[k] = T(Empty)
    \/ k = "cwd" /\ trim_is_empty(t[k].str)

\* a valid descriptor without its empty and blank fields
Canon(d) == T([k \in {x \in DOMAIN d.tbl : ~OmittedField(d.tbl, x)} |-> d.tbl[k]])

(* C2: after set_mcp_servers_map(m) on any absent or parseable file, with  *)
(* every descriptor of m valid, read_mcp_servers_map returns m, the empty  *)
(* args / env / headers and blank cwd of m absent.                         *)
C2_RoundTrip ==
    (call.op = "read" /\ call.after_set /\ \A id \in DOMAIN call.servers : ValidDescriptor(call.servers[id])) =>
        call.ret = Ok([id \in DOMAIN call.servers |-> Canon(call.servers[id])])

C2_Witness ==
    /\ ReadDone
    /\ call.after_set
    /\ DOMAIN call.servers = {"a", "b"}
    /\ \A id \in DOMAIN call.servers : ValidDescriptor(call.servers[id])
    /\ \E id \in DOMAIN call.servers : Canon(call.servers[id]) # call.servers[id]
    /\ call.ret = Ok([id \in DOMAIN call.servers |-> Canon(call.servers[id])])

----------------------------------------------------------------------------
(* Headers *)

\* the entry a returned descriptor comes from: the primary one when it
\* converts (a table of a known type), else the legacy one
Converts(e) == "tbl" \in DOMAIN e /\ TypeOf(e) \in Known

SourceEntry(root, id) ==
    IF id \in DOMAIN PrimaryTable(root) /\ Converts(PrimaryTable(root)[id])
    THEN PrimaryTable(root)[id]
    ELSE LegacyTable(root)[id]

\* the headers a descriptor carries: none when it has no headers field
HeadersOf(d) == IF "headers" \in DOMAIN d.tbl THEN d.tbl["headers"].tbl ELSE Empty

\* the string entries of the first of the two fields that is a table
FirstHeaders(e) ==
    IF IsTable(e.tbl, "http_headers") THEN str_entries(e.tbl["http_headers"].tbl)
    ELSE IF IsTable(e.tbl, "headers") THEN str_entries(e.tbl["headers"].tbl)
    ELSE Empty

Remote(v) == TypeOf(v) \in {"http", "sse"}

(* C7: a read takes the headers of an http or sse entry from http_headers  *)
(* and consults headers only when http_headers is no table; a write stores *)
(* non-empty headers under http_headers and never under headers; so a      *)
(* headers map of strings that is written reads back the same.             *)
C7_Headers ==
    /\ ReadDone =>
         \A id \in DOMAIN call.ret.ok :
             Remote(call.ret.ok[id]) =>
                 HeadersOf(call.ret.ok[id]) = FirstHeaders(SourceEntry(RootOf(call.pre), id))
    /\ SetDone =>
         \A id \in DOMAIN PrimaryTable(file.root) :
             LET e == PrimaryTable(file.root)[id].tbl
                 d == call.servers[id]
             IN  /\ "headers" \notin DOMAIN e
                 /\ (Remote(d) /\ IsTable(d.tbl, "headers") /\ DOMAIN str_entries(d.tbl["headers"].tbl) # {})
                       => (IsTable(e, "http_headers") /\ e["http_headers"].tbl = str_entries(d.tbl["headers"].tbl))
                 /\ "http_headers" \in DOMAIN e =>
                       (Remote(d) /\ IsTable(d.tbl, "headers") /\ DOMAIN e["http_headers"].tbl # {})
    /\ (ReadDone /\ call.after_set) =>
         \A id \in DOMAIN call.servers :
             (Remote(call.servers[id]) /\ "tbl" \in DOMAIN call.servers[id]
                /\ StrsTableOrNone(call.servers[id].tbl, "headers")) =>
                 /\ id \in DOMAIN call.ret.ok
                 /\ HeadersOf(call.ret.ok[id]) = HeadersOf(call.servers[id])

C7_Witness ==
    /\ ReadDone
    /\ call.after_set
    /\ \E id \in DOMAIN call.servers :
          /\ Remote(call.servers[id])
          /\ DOMAIN HeadersOf(call.servers[id]) = {"A", "B"}
          /\ HeadersOf(call.ret.ok[id]) = HeadersOf(call.servers[id])
          /\ "http_headers" \in DOMAIN PrimaryTable(file.root)[id].tbl

----------------------------------------------------------------------------
(* Reading the two locations *)

\* the descriptor a read returns under id, if any
At(m, id) == IF id \in DOMAIN m THEN Some(m[id]) ELSE None

\* root with the servers table of the legacy container taken out
WithoutLegacy(root) ==
    IF IsTable(root, "mcp") THEN insert(root, "mcp", T(remove(root["mcp"].tbl, "servers"))) ELSE root

\* root with the primary location taken out
WithoutPrimary(root) == remove(root, "mcp_servers")

InBoth(root) == DOMAIN PrimaryTable(root) \cap DOMAIN LegacyTable(root)

\* the identifiers under which both locations hold an entry table
EntryInBoth(root) ==
    {id \in InBoth(root) : "tbl" \in DOMAIN PrimaryTable(root)[id] /\ "tbl" \in DOMAIN LegacyTable(root)[id]}

MapRead(root) == read_mcp_servers_map(FileDoc(root)).ok

(* C1 as stated: for every identifier with an entry in both locations the  *)
(* read result is that of the primary entry alone.                         *)
C1_PrimaryAlone ==
    ReadDone =>
        \A id \in EntryInBoth(RootOf(call.pre)) :
            At(call.ret.ok, id) = At(MapRead(WithoutLegacy(RootOf(call.pre))), id)

(* C1: for every identifier with an entry in both locations whose primary  *)
(* entry is a table of type stdio, http or sse (stdio without a string     *)
(* type), the read result is that of the primary entry alone; when the     *)
(* primary entry is dropped (no table, or another type), the result is     *)
(* that of the legacy entry.                                               *)
C1_Precedence ==
    ReadDone =>
        \A id \in InBoth(RootOf(call.pre)) :
            IF Converts(PrimaryTable(RootOf(call.pre))[id])
            THEN /\ At(call.ret.ok, id) = At(MapRead(WithoutLegacy(RootOf(call.pre))), id)
                 /\ At(call.ret.ok, id) # None
            ELSE At(call.ret.ok, id) = At(MapRead(WithoutPrimary(RootOf(call.pre))), id)

C1_Witness ==
    /\ ReadDone
    /\ \E id \in InBoth(RootOf(call.pre)) :
          /\ Converts(PrimaryTable(RootOf(call.pre))[id])
          /\ Converts(LegacyTable(RootOf(call.pre))[id])
          /\ At(MapRead(WithoutPrimary(RootOf(call.pre))), id) # At(call.ret.ok, id)
          /\ At(MapRead(WithoutLegacy(RootOf(call.pre))), id) = At(call.ret.ok, id)

\* an entry with a string type that is none of the three
UnknownType(e) == "tbl" \in DOMAIN e /\ TypeOf(e) \notin Known

Keep(t) == [id \in {x \in DOMAIN t : ~UnknownType(t[x])} |-> t[id]]

\* root without its entries of unknown type, in both locations
WithoutUnknown(root) ==
    LET r1 == IF IsTable(root, "mcp_servers")
              THEN insert(root, "mcp_servers", T(Keep(root["mcp_servers"].tbl)))
              ELSE root
    IN  IF IsTable(r1, "mcp") /\ IsTable(r1["mcp"].tbl, "servers")
        THEN insert(r1, "mcp", T(insert(r1["mcp"].tbl, "servers", T(Keep(LegacyTable(r1))))))
        ELSE r1

(* C4: a read of a parseable file succeeds, returns no descriptor of a     *)
(* type other than stdio, http and sse, and returns what it returns for    *)
(* the document without its entries of unknown type.                       *)
C4_UnknownTypeDropped ==
    (call.op = "read" /\ IsDoc(call.pre)) =>
        /\ is_ok(call.ret)
        /\ \A id \in DOMAIN call.ret.ok : TypeOf(call.ret.ok[id]) \in Known
        /\ call.ret.ok = MapRead(WithoutUnknown(call.pre.root))

C4_Witness ==
    /\ ReadDone
    /\ IsDoc(call.pre)
    /\ \E id \in DOMAIN PrimaryTable(call.pre.root) : UnknownType(PrimaryTable(call.pre.root)[id])
    /\ \E id \in DOMAIN LegacyTable(call.pre.root) : UnknownType(LegacyTable(call.pre.root)[id])
    /\ WithoutUnknown(call.pre.root) # call.pre.root
    /\ DOMAIN call.ret.ok = {"a", "b"}

----------------------------------------------------------------------------
(* Writing back what was read *)

\* a descriptor with the command or url the writer gives it when it has none
WithDefaults(d) ==
    IF TypeOf(d) = "stdio" THEN T(d.tbl @@ ("command" :> S("")))
    ELSE T(d.tbl @@ ("url" :> S("")))

(* C10 as stated: a map that is read, written back as it is and read again *)
(* is returned unchanged.                                                  *)
C10_Unchanged ==
    (ReadDone /\ call.after_set /\ call.unmodified) => call.ret = Ok(call.servers)

(* C10: a map that is read, written back as it is and read again is        *)
(* returned unchanged, except that a stdio descriptor without command      *)
(* comes back with command "" and an http or sse descriptor without url    *)
(* with url "".                                                            *)
C10_Stable ==
    (ReadDone /\ call.after_set /\ call.unmodified) =>
        call.ret = Ok([id \in DOMAIN call.servers |-> WithDefaults(call.servers[id])])

C10_Witness ==
    /\ ReadDone
    /\ call.after_set
    /\ call.unmodified
    /\ DOMAIN call.servers = {"a", "b"}
    /\ "args" \in DOMAIN call.servers["a"].tbl
    /\ "url" \notin DOMAIN call.servers["b"].tbl
    /\ call.ret.ok["a"] = call.servers["a"]
    /\ call.ret.ok["b"] = T(("type" :> S("sse")) @@ ("url" :> S("")))

----------------------------------------------------------------------------
(* Uncoordinated writers *)

BothDone == \A c \in Callers : pc[c] = "done"

\* the server caller c added is in the primary location of the file
Added(c) ==
    /\ IsDoc(file)
    /\ OwnId(c) \in DOMAIN PrimaryTable(file.root)
    /\ PrimaryTable(file.root)[OwnId(c)] = T(json_server_to_toml_table(OwnServer(c)).ok)

(* C9: when both callers have returned success and their cycles did not    *)
(* interleave, the servers of both are in the primary location; whenever a *)
(* server is lost the cycles did interleave, and that of the last writer   *)
(* is there in any case.                                                   *)
C9_SequentialKeepsBoth ==
    BothDone =>
        /\ ~overlap => \A c \in Callers : Added(c)
        /\ \E c \in Callers : Added(c)

\* a lost update: both calls returned success, one caller's server is gone
C9_LostUpdate ==
    /\ BothDone
    /\ overlap
    /\ \E c \in Callers : ~Added(c)
    /\ \E c \in Callers : Added(c)

====
